---- MODULE Spec2Model ----
(***************************************************************************)
(* SmartFarm Italia: the simulator genera_dati (src/simulatore.py) and the *)
(* dashboard filter filtra_dati (src/dashboard.py).                        *)
(*                                                                         *)
(* Numbers are fixed point: a value v of the program is the integer        *)
(* v * 1000 * Res, so the third decimal is the digit of weight Res and     *)
(* round(3) really discards something.  Dates are day numbers of one year  *)
(* (1 = 1 January).  A Python string is the sequence of its characters,   *)
(* a digit being its value, "A" 10 and "L" 11 (the order of the character  *)
(* codes): <<10, 1, 0>> is "A10", <<10, 11, 11>> is "ALL", <<>> is "".     *)
(***************************************************************************)
EXTENDS Integers, Sequences, FiniteSets, TLC

\* ------------------------------------------------------------------ bounds
\* units per 0.001: the resolution of the fixed-point numbers
Res == 10
\* last day number a date argument can take
MaxDay == 3
\* values a single draw of the random stream can take
NQuant == 3
\* largest seed
MaxSeed == 242
\* calls of genera_dati in one behaviour of SpecCalls
MaxCalls == 3

\* ------------------------------------------------------------- arithmetic
\* m thousandths as a fixed-point number
Dec(m) == m * Res
One == Dec(1000)
Abs(x) == IF x < 0 THEN 0 - x ELSE x
Min2(a, b) == IF a < b THEN a ELSE b
Max2(a, b) == IF a > b THEN a ELSE b
\* a * b of two fixed-point numbers, b >= 0 (the product is split so that no
\* intermediate value leaves 32 bits)
MulFix(a, b) ==
  LET m == Abs(a)
      v == (m \div One) * b + ((m % One) * b) \div One
  IN  IF a < 0 THEN 0 - v ELSE v
\* np.clip
Clip(x, lo, hi) == IF x < lo THEN lo ELSE IF x > hi THEN hi ELSE x

\* Series.round(3): to the nearest thousandth, ties to the even one
Round3(x) ==
  LET m == Abs(x)
      q == m \div Res
      r == m % Res
      up == (2 * r > Res) \/ (2 * r = Res /\ q % 2 = 1)
      v == (IF up THEN q + 1 ELSE q) * Res
  IN  IF x < 0 THEN 0 - v ELSE v

\* sin(2*pi*(day_of_year - 80)/365) in ten-thousandths, January days
SinYearTable == <<-9778, -9741, -9701, -9657, -9611, -9562, -9511, -9456,
                  -9399, -9338, -9275, -9210>>
SinYear(doy) == (SinYearTable[doy] * Res) \div 10
\* sin(pi * i / m) in ten-thousandths, i in 0..m
SinPiTable == << <<0, 0>>,
                 <<0, 10000, 0>>,
                 <<0, 8660, 8660, 0>>,
                 <<0, 7071, 10000, 7071, 0>>,
                 <<0, 5878, 9511, 9511, 5878, 0>>,
                 <<0, 5000, 8660, 10000, 8660, 5000, 0>>,
                 <<0, 4339, 7818, 9749, 9749, 7818, 4339, 0>> >>
SinPi(i, m) == (SinPiTable[m][i + 1] * Res) \div 10

\* ---------------------------------------------------------- random stream
\* np.random.default_rng(seed) is a deterministic generator: a state set
\* from the seed and stepped by every draw.  Here the state is a 15-bit
\* number stepped by a linear congruence and a draw is its quantile, one of
\* NQuant values.
Seeds == 0 .. MaxSeed
SeedState(seed) == (seed * 7919 + 12345) % 32768
Quantile(g) == (g.state * NQuant) \div 32768
Advance(g) == [state |-> (g.state * 1229 + 1) % 32768]
\* the three distributions, as functions of the quantile q in 0..NQuant-1
\* the fraction of [0, 1) a quantile stands for: 0, ..., up to just under 1
Frac(q) == IF q > 0 /\ q = NQuant - 1 THEN One - 1 ELSE (One * q) \div NQuant
\* rng.random(): [0, 1)
RngRandom(q) == Frac(q)
\* variant: the second argument taken as a width
RngUniformScale(a, b, q) == a + MulFix(b, Frac(q))
\* rng.uniform(a, b): [a, b)
RngUniform(a, b, q) == a + MulFix(b - a, Frac(q))
\* rng.normal(mu, sigma): mu + sigma * z, the standard deviate z spread over
\* -ZTop..ZTop, a little over ZMax and not a whole number of thousandths
ZMax == 8
ZTop == Dec(1000 * ZMax + 12) + Res \div 3
RngNormal(mu, sigma, q) ==
  mu + MulFix(((2 * q - (NQuant - 1)) * ZTop) \div Max2(NQuant - 1, 1), sigma)

\* ------------------------------------------------------------------ plots
\* Appezzamento(id_appezzamento, coltura, superficie_ha, zona_climatica)
Appezzamento(id, coltura, superficie, zona) ==
  [id_appezzamento |-> id, coltura |-> coltura, superficie_ha |-> superficie,
   zona_climatica |-> zona]
A1 == Appezzamento(<<10, 1>>, "Grano", Dec(12500), "pianura")
A2 == Appezzamento(<<10, 2>>, "Mais", Dec(8000), "collina")
A3 == Appezzamento(<<10, 3>>, "Ortaggi", Dec(5200), "pianura")
\* a caller's plot: id "A10", upper-case crop, area with a 4th decimal
A10 == Appezzamento(<<10, 1, 0>>, "MAIS", Dec(1234) + Res \div 2, "collina")
get_appezzamenti_default == <<A1, A2, A3>>
\* str.lower on the crop names
Lower(c) ==
  CASE c = "Grano" -> "grano"
    [] c = "Mais" -> "mais"
    [] c = "MAIS" -> "mais"
    [] c = "Ortaggi" -> "ortaggi"
    [] OTHER -> c

\* Optional arguments
Some(v) == [given |-> TRUE, v |-> v]
NoneList == [given |-> FALSE, v |-> <<>>]
NoneInt == [given |-> FALSE, v |-> 0]
NoneStr == [given |-> FALSE, v |-> ""]

\* ------------------------------------------------------------ genera_dati
\* variant: the end date is excluded
DateRangeOpen(start, end) == [k \in 1 .. Max2(end - start, 0) |-> start + k - 1]
\* variant: the two dates are put in order first
DateRangeSwap(start, end) ==
  [k \in 1 .. Abs(end - start) + 1 |-> Min2(start, end) + k - 1]
\* pd.date_range(start, end, freq="D"): the days start..end, none if end < start
DateRange(start, end) == [k \in 1 .. Max2(end - start + 1, 0) |-> start + k - 1]
\* variant: one generator made at the first call and kept for the later ones
DefaultRngShared(random_state, entropy, old) ==
  IF old.state >= 0 THEN old
  ELSE [state |-> SeedState(IF random_state.given THEN random_state.v ELSE entropy)]
\* np.random.default_rng(random_state): a new generator at every call; with
\* no seed it is seeded from the operating system's entropy
DefaultRng(random_state, entropy, old) ==
  [state |-> SeedState(IF random_state.given THEN random_state.v ELSE entropy)]
\* variant: "if not appezzamenti"
IsNoneOrEmpty(appezzamenti) == ~appezzamenti.given \/ appezzamenti.v = <<>>
\* "if appezzamenti is None"
IsNone(appezzamenti) == ~appezzamenti.given
\* variant: the first plot at every pass
AppezFirst(appezzamenti, p) == appezzamenti[1]
\* "for appez in appezzamenti": the plot of the p-th pass
Appez(appezzamenti, p) == appezzamenti[p]
\* variant: the index taken one too low
DataDelGiornoOff(date_index0, i) == date_index0[Max2(i, 1)]
\* "for i, data in enumerate(date_index)": the date of day index i
DataDelGiorno(date_index0, i) == date_index0[i + 1]
\* variant: "if not records"
IsFirstRecord(i, records) == records = <<>>
\* "if i == 0"
IsFirstDay(i, records) == i = 0
\* records[-1]
LastIndex(records) == Len(records)
\* variant: no floor
NoFloor(x) == x
\* max(0, x)
Max0(x) == IF x < 0 THEN 0 ELSE x
\* max(5, x)
Floor5(x) == Max2(Dec(5000), x)
\* variant: the operands exchanged
MargineSwapped(ricavi, costo) == costo - ricavi
\* "margine_eur = ricavi_totali_eur - costo_totale_eur"
Margine(ricavi, costo) == ricavi - costo

PenalitaUmidita(u) ==
  IF u < Dec(25000) \/ u > Dec(80000) THEN Dec(300)
  ELSE IF u < Dec(35000) \/ u > Dec(70000) THEN Dec(150)
  ELSE 0
\* variant: two independent tests whose penalties add up
PenalitaNutrientiCumulata(media) ==
  (IF media < Dec(20000) THEN Dec(400) ELSE 0)
    + (IF media < Dec(35000) THEN Dec(200) ELSE 0)
PenalitaNutrienti(media) ==
  IF media < Dec(20000) THEN Dec(400)
  ELSE IF media < Dec(35000) THEN Dec(200)
  ELSE 0
FattorePenalizzante(u, media) ==
  Max2(Dec(100), One - (PenalitaUmidita(u) + PenalitaNutrienti(media)))
PrezzoKg(coltura) ==
  IF Lower(coltura) = "grano" THEN Dec(250)
  ELSE IF Lower(coltura) = "mais" THEN Dec(220)
  ELSE Dec(800)
StadioBase(coltura, i, giorni_totali) ==
  LET m == Max2(giorni_totali - 1, 1)
  IN  IF Lower(coltura) \in {"grano", "mais"}
      THEN Clip(SinPi(i, m), 0, One)
      ELSE Clip(Dec(300) + (Dec(700) * i) \div m, 0, One)

\* variant: the recharge without its cap
RicaricaSenzaTetto(precipitazioni_mm, u) == MulFix(precipitazioni_mm, u)
\* line 155: min(20, precipitazioni_mm * rng.uniform(0.3, 0.6))
Ricarica(precipitazioni_mm, u) == Min2(Dec(20000), MulFix(precipitazioni_mm, u))
\* variant: the floor applied after the bonus
NutrienteTettoDopo(prec, consumo, concima, bonus) ==
  Floor5(IF concima THEN prec - consumo + bonus ELSE prec - consumo)
\* lines 158-165 for one nutrient: max(5, previous - draw), then the bonus
\* if the event fired
Nutriente(prec, consumo, concima, bonus) ==
  IF concima THEN Floor5(prec - consumo) + bonus ELSE Floor5(prec - consumo)
\* variant: the yield per hectare taken as the total
ResaTotaleUnitaria(resa_kg_ha, superficie_ha) == resa_kg_ha
\* line 201
ResaTotale(resa_kg_ha, superficie_ha) == MulFix(resa_kg_ha, superficie_ha)
\* variant: the state values rounded as they are stored
MemorizzaArrotondato(record) ==
  [record EXCEPT !.umidita_suolo_pct = Round3(@), !.nutrienti_n = Round3(@),
                 !.nutrienti_p = Round3(@), !.nutrienti_k = Round3(@)]
\* lines 221-239: the values are stored as computed, as floats
Memorizza(record) == record

\* One pass of the loop body for plot appez on day index i (date data): the
\* record appended and the generator after the draws.  g0, g1, ... are the
\* generator before each draw, in the order of the calls on rng.
GeneraRecord(appez, i, data, records, giorni_totali, g0) ==
  LET temperatura_c ==
        Dec(17500) + MulFix(SinYear(data), Dec(12500))
          + RngNormal(0, Dec(2000), Quantile(g0))
      g1 == Advance(g0)
      piove == RngRandom(Quantile(g1)) < Dec(300)
      g2 == Advance(g1)
      precipitazioni_mm ==
        IF piove THEN Max0(RngNormal(Dec(10000), Dec(8000), Quantile(g2))) ELSE 0
      g3 == IF piove THEN Advance(g2) ELSE g2
      first == IsFirstDay(i, records)
      prev == records[LastIndex(records)]
      \* day 0: four draws
      gi1 == Advance(g3)
      gi2 == Advance(gi1)
      gi3 == Advance(gi2)
      gi4 == Advance(gi3)
      \* later days: decay, recharge if it rained, three depletions, the event
      delta0 == 0 - RngUniform(Dec(100), Dec(800), Quantile(g3))
      gd1 == Advance(g3)
      ricarica == precipitazioni_mm > 0
      delta ==
        IF ricarica
        THEN delta0 + Ricarica(precipitazioni_mm,
                               RngUniform(Dec(300), Dec(600), Quantile(gd1)))
        ELSE delta0
      gd2 == IF ricarica THEN Advance(gd1) ELSE gd1
      consumo_n == RngUniform(Dec(50), Dec(300), Quantile(gd2))
      gd3 == Advance(gd2)
      consumo_p == RngUniform(Dec(20), Dec(150), Quantile(gd3))
      gd4 == Advance(gd3)
      consumo_k == RngUniform(Dec(50), Dec(250), Quantile(gd4))
      gd5 == Advance(gd4)
      concima == RngRandom(Quantile(gd5)) < Dec(30)
      gd6 == Advance(gd5)
      gd7 == Advance(gd6)
      gd8 == Advance(gd7)
      gd9 == Advance(gd8)
      umidita_suolo_pct ==
        IF first THEN RngUniform(Dec(30000), Dec(60000), Quantile(g3))
        ELSE Clip(prev.umidita_suolo_pct + delta, Dec(10000), Dec(90000))
      nutrienti_n ==
        IF first THEN RngUniform(Dec(40000), Dec(80000), Quantile(gi1))
        ELSE Nutriente(prev.nutrienti_n, consumo_n, concima,
                       RngUniform(Dec(10000), Dec(25000), Quantile(gd6)))
      nutrienti_p ==
        IF first THEN RngUniform(Dec(20000), Dec(50000), Quantile(gi2))
        ELSE Nutriente(prev.nutrienti_p, consumo_p, concima,
                       RngUniform(Dec(5000), Dec(15000), Quantile(gd7)))
      nutrienti_k ==
        IF first THEN RngUniform(Dec(30000), Dec(70000), Quantile(gi3))
        ELSE Nutriente(prev.nutrienti_k, consumo_k, concima,
                       RngUniform(Dec(8000), Dec(20000), Quantile(gd8)))
      g4 == IF first THEN gi4 ELSE IF concima THEN gd9 ELSE gd6
      \* growth stage and yield
      stadio_crescita ==
        Clip(StadioBase(appez.coltura, i, giorni_totali)
               + RngNormal(0, Dec(50), Quantile(g4)), 0, One)
      g5 == Advance(g4)
      resa_potenziale == stadio_crescita * 80
      media_nutrients == (nutrienti_n + nutrienti_p + nutrienti_k) \div 3
      fattore == FattorePenalizzante(umidita_suolo_pct, media_nutrients)
      resa_kg_ha ==
        Max0(MulFix(resa_potenziale, fattore) + RngNormal(0, Dec(3000), Quantile(g5)))
      g6 == Advance(g5)
      resa_totale_kg == ResaTotale(resa_kg_ha, appez.superficie_ha)
      \* costs, revenue, margin
      costo_manodopera == Dec(25000) + RngNormal(0, Dec(3000), Quantile(g6))
      g7 == Advance(g6)
      costo_input == Dec(10000) + RngNormal(0, Dec(2000), Quantile(g7))
      g8 == Advance(g7)
      costo_totale_eur == Max0(costo_manodopera + costo_input)
      ricavi_totali_eur == Max0(MulFix(resa_totale_kg, PrezzoKg(appez.coltura)))
      calcolato ==
         [data |-> data,
          id_appezzamento |-> appez.id_appezzamento,
          coltura |-> appez.coltura,
          superficie_ha |-> appez.superficie_ha,
          temperatura_c |-> temperatura_c,
          umidita_suolo_pct |-> umidita_suolo_pct,
          precipitazioni_mm |-> precipitazioni_mm,
          nutrienti_n |-> nutrienti_n,
          nutrienti_p |-> nutrienti_p,
          nutrienti_k |-> nutrienti_k,
          stadio_crescita |-> stadio_crescita,
          resa_kg_ha |-> resa_kg_ha,
          resa_totale_kg |-> resa_totale_kg,
          costo_totale_eur |-> costo_totale_eur,
          ricavi_totali_eur |-> ricavi_totali_eur,
          margine_eur |-> Margine(ricavi_totali_eur, costo_totale_eur)]
  IN  [record |-> Memorizza(calcolato),
       \* what the pass computed and decided, for the properties below
       traccia |-> [calcolato |-> calcolato, piove |-> piove,
                    concima |-> ~first /\ concima, fattore |-> fattore],
       rng |-> g8,
       \* which record the recurrence read: 0 when it read none
       letto |-> IF first THEN 0 ELSE LastIndex(records)]

\* Python's < and <= on strings
StrLess(a, b) ==
  \E k \in 1 .. Min2(Len(a), Len(b)) + 1 :
    /\ \A j \in 1 .. k - 1 : a[j] = b[j]
    /\ k <= Len(b)
    /\ (k <= Len(a) => a[k] < b[k])
StrLeq(a, b) == a = b \/ StrLess(a, b)
\* the order of sort_values(["data", "id_appezzamento"])
KeyLeq(r1, r2) ==
  \/ r1.data < r2.data
  \/ r1.data = r2.data /\ StrLeq(r1.id_appezzamento, r2.id_appezzamento)
InsertSorted(s, r) ==
  LET k == Cardinality({j \in 1 .. Len(s) : KeyLeq(s[j], r)})
  IN  SubSeq(s, 1, k) \o <<r>> \o SubSeq(s, k + 1, Len(s))
\* variant: the table is left in the order of generation
Unsorted(rows) == rows
\* df.sort_values(["data", "id_appezzamento"]); reset_index: a stable sort
RECURSIVE SortValues(_)
SortValues(rows) ==
  IF rows = <<>> THEN <<>>
  ELSE InsertSorted(SortValues(SubSeq(rows, 1, Len(rows) - 1)), rows[Len(rows)])
\* df[col].round(3) on every numeric column
RoundRow(r) ==
  [r EXCEPT !.superficie_ha = Round3(@), !.temperatura_c = Round3(@),
            !.umidita_suolo_pct = Round3(@), !.precipitazioni_mm = Round3(@),
            !.nutrienti_n = Round3(@), !.nutrienti_p = Round3(@),
            !.nutrienti_k = Round3(@), !.stadio_crescita = Round3(@),
            !.resa_kg_ha = Round3(@), !.resa_totale_kg = Round3(@),
            !.costo_totale_eur = Round3(@), !.ricavi_totali_eur = Round3(@),
            !.margine_eur = Round3(@)]
RoundAll(rows) == [n \in 1 .. Len(rows) |-> RoundRow(rows[n])]

\* ------------------------------------------------------------ filtra_dati
ALL == <<10, 11, 11>>
\* the filter without its upper date bound
filtra_dati_senza_fine(df0, appezzamento, start_date, end_date) ==
  LET Keep(r) ==
        /\ (appezzamento # <<>> /\ appezzamento # ALL) => r.id_appezzamento = appezzamento
        /\ start_date.given => r.data >= start_date.v
  IN  SelectSeq(df0, Keep)
\* the filter with an exclusive upper date bound
filtra_dati_esclusivo(df0, appezzamento, start_date, end_date) ==
  LET Keep(r) ==
        /\ (appezzamento # <<>> /\ appezzamento # ALL) => r.id_appezzamento = appezzamento
        /\ start_date.given => r.data >= start_date.v
        /\ end_date.given => r.data < end_date.v
  IN  SelectSeq(df0, Keep)
\* filtra_dati(appezzamento, start_date, end_date) on the dataset df.  A date
\* of the model is the midnight timestamp of its day: the column converted at
\* line 29 and the bounds converted by pd.to_datetime are compared as such.
\* An appezzamento of None or "" is the empty string <<>>.
filtra_dati(df0, appezzamento, start_date, end_date) ==
  LET Keep(r) ==
        /\ (appezzamento # <<>> /\ appezzamento # ALL) => r.id_appezzamento = appezzamento
        /\ start_date.given => r.data >= start_date.v
        /\ end_date.given => r.data <= end_date.v
  IN  SelectSeq(df0, Keep)
\* Series.sum()
RECURSIVE SumCol(_, _)
SumCol(rows, col) ==
  IF rows = <<>> THEN 0 ELSE rows[1][col] + SumCol(Tail(rows), col)

\* -------------------------------------------------------------- dashboard
\* lines 37-38
data_min(df0) ==
  CHOOSE d \in {df0[k].data : k \in 1 .. Len(df0)} :
    \A k \in 1 .. Len(df0) : d <= df0[k].data
data_max(df0) ==
  CHOOSE d \in {df0[k].data : k \in 1 .. Len(df0)} :
    \A k \in 1 .. Len(df0) : d >= df0[k].data
\* lines 239-240
reset_filtri(df0) ==
  [appezzamento |-> ALL, start_date |-> Some(data_min(df0)),
   end_date |-> Some(data_max(df0))]
\* a check of emptiness that never finds the table empty
MaiVuoto(rows) == FALSE
\* DataFrame.empty
Empty(rows) == rows = <<>>
\* a float that is a number or nan
Num(x) == [nan |-> FALSE, v |-> x]
NaN == [nan |-> TRUE, v |-> 0]
\* Series.sum() and Series.mean(): the mean of no value is nan
Somma(rows, col) == Num(SumCol(rows, col))
Media(rows, col) ==
  IF rows = <<>> THEN NaN ELSE Num(SumCol(rows, col) \div Len(rows))
\* a text shown as it is, and f"{x:,.3f}"
Testo(t) == [testo |-> t, num |-> 0]
Formatta(x) == IF x.nan THEN Testo("nan") ELSE [testo |-> "", num |-> Round3(x.v)]
\* lines 70-82
kpi_card(title, value, subtitle) ==
  [title |-> title, value |-> value, subtitle |-> subtitle]
\* lines 85-89: a figure of no point, its axes hidden
fig_nessun_dato(titolo) ==
  [tipo |-> "scatter", title |-> titolo, assi |-> FALSE, punti |-> <<>>]
\* px.line / px.bar of column y against the date, coloured by plot
Px(tipo, rows, y, title) ==
  [tipo |-> tipo, title |-> title, assi |-> TRUE,
   punti |-> [k \in 1 .. Len(rows) |->
                [x |-> rows[k].data, color |-> rows[k].id_appezzamento,
                 y |-> rows[k][y]]]]
\* lines 581-584: the running sum of the margin within each plot
MargineAccumulato(rows) ==
  [k \in 1 .. Len(rows) |->
     [data |-> rows[k].data, id_appezzamento |-> rows[k].id_appezzamento,
      margine_accumulato |->
        LET Prima(r) == r.id_appezzamento = rows[k].id_appezzamento
        IN  SumCol(SelectSeq(SubSeq(rows, 1, k), Prima), "margine_eur")]]
\* strftime("%Y-%m-%d") of a day of January 2024, as its digits
StrfTime(d) == <<2, 0, 2, 4, 0, 1, d \div 10, d % 10>>
\* lines 665-679: the rows of the table shown
TabellaDati(rows) ==
  [k \in 1 .. Len(rows) |->
     [data |-> StrfTime(rows[k].data),
      id_appezzamento |-> rows[k].id_appezzamento,
      coltura |-> rows[k].coltura,
      temperatura_c |-> rows[k].temperatura_c,
      umidita_suolo_pct |-> rows[k].umidita_suolo_pct,
      precipitazioni_mm |-> rows[k].precipitazioni_mm,
      resa_kg_ha |-> rows[k].resa_kg_ha,
      margine_eur |-> rows[k].margine_eur]]
ColonneTabella ==
  <<"data", "id_appezzamento", "coltura", "temperatura_c", "umidita_suolo_pct",
    "precipitazioni_mm", "resa_kg_ha", "margine_eur">>
NessunDato == "Nessun dato nel periodo selezionato"
FigVuota == "Nessun dato disponibile per i filtri selezionati"

\* lines 354-386
aggiorna_kpi_panoramica(df0, f) ==
  LET df_filtrato == filtra_dati(df0, f.appezzamento, f.start_date, f.end_date)
  IN  IF Empty(df_filtrato)
      THEN <<kpi_card("Resa media (kg/ha)", Testo("-"), NessunDato),
             kpi_card("Margine totale", Testo("-"), NessunDato),
             kpi_card("Precipitazioni totali (mm)", Testo("-"), NessunDato)>>
      ELSE <<kpi_card("Resa media (kg/ha)",
                      Formatta(Media(df_filtrato, "resa_kg_ha")),
                      "Media su periodo e appezzamenti selezionati"),
             kpi_card("Margine totale",
                      Formatta(Somma(df_filtrato, "margine_eur")),
                      "Somma dei margini giornalieri"),
             kpi_card("Precipitazioni totali (mm)",
                      Formatta(Somma(df_filtrato, "precipitazioni_mm")),
                      "Accumulo totale nel periodo")>>
\* lines 403-432
aggiorna_kpi_economici(df0, f) ==
  LET df_filtrato == filtra_dati(df0, f.appezzamento, f.start_date, f.end_date)
  IN  IF Empty(df_filtrato)
      THEN <<kpi_card("Ricavi totali", Testo("-"), NessunDato),
             kpi_card("Costi totali", Testo("-"), NessunDato),
             kpi_card("Margine medio", Testo("-"), NessunDato)>>
      ELSE <<kpi_card("Ricavi totali",
                      Formatta(Somma(df_filtrato, "ricavi_totali_eur")),
                      "Somma ricavi nel periodo selezionato"),
             kpi_card("Costi totali",
                      Formatta(Somma(df_filtrato, "costo_totale_eur")),
                      "Somma costi nel periodo selezionato"),
             kpi_card("Margine medio",
                      Formatta(Media(df_filtrato, "margine_eur")),
                      "Media del margine giornaliero")>>
\* lines 448-483
aggiorna_kpi_ambientali(df0, f) ==
  LET df_filtrato == filtra_dati(df0, f.appezzamento, f.start_date, f.end_date)
  IN  IF Empty(df_filtrato)
      THEN <<kpi_card("Temperatura media", Testo("-"), NessunDato),
             kpi_card("Umidita media suolo (%)", Testo("-"), NessunDato),
             kpi_card("Precipitazioni totali (mm)", Testo("-"), NessunDato)>>
      ELSE <<kpi_card("Temperatura media",
                      Formatta(Media(df_filtrato, "temperatura_c")),
                      "Media giornaliera nel periodo"),
             kpi_card("Umidita media suolo (%)",
                      Formatta(Media(df_filtrato, "umidita_suolo_pct")),
                      "Media su periodo e appezzamenti"),
             kpi_card("Precipitazioni totali (mm)",
                      Formatta(Somma(df_filtrato, "precipitazioni_mm")),
                      "Accumulo totale nel periodo")>>
\* lines 496-531
aggiorna_grafici_panoramica(df0, f) ==
  LET df_filtrato == filtra_dati(df0, f.appezzamento, f.start_date, f.end_date)
      fig_vuota == fig_nessun_dato(FigVuota)
  IN  IF Empty(df_filtrato)
      THEN <<fig_vuota, fig_vuota>>
      ELSE <<Px("line", df_filtrato, "resa_kg_ha", "Andamento della resa (kg/ha)"),
             Px("line", df_filtrato, "margine_eur", "Margine giornaliero")>>
\* lines 546-600
aggiorna_grafici_economici(df0, f) ==
  LET df_filtrato == filtra_dati(df0, f.appezzamento, f.start_date, f.end_date)
      fig_vuota == fig_nessun_dato(FigVuota)
  IN  IF Empty(df_filtrato)
      THEN <<fig_vuota, fig_vuota, fig_vuota>>
      ELSE <<Px("line", df_filtrato, "ricavi_totali_eur", "Ricavi giornalieri"),
             Px("line", df_filtrato, "costo_totale_eur", "Costi giornalieri"),
             Px("line", MargineAccumulato(df_filtrato), "margine_accumulato",
                "Margine cumulato")>>
\* lines 617-683
aggiorna_grafici_ambientali_e_tabella(df0, f) ==
  LET df_filtrato == filtra_dati(df0, f.appezzamento, f.start_date, f.end_date)
      fig_vuota == fig_nessun_dato("Nessun dato da mostrare")
  IN  IF Empty(df_filtrato)
      THEN <<fig_vuota, fig_vuota, fig_vuota, <<>>, <<>>>>
      ELSE <<Px("line", df_filtrato, "temperatura_c", "Temperatura"),
             Px("line", df_filtrato, "umidita_suolo_pct", "Umidita del suolo (%)"),
             Px("bar", df_filtrato, "precipitazioni_mm",
                "Precipitazioni giornaliere (mm)"),
             TabellaDati(df_filtrato), ColonneTabella>>

\* ------------------------------------------------------------------ state
VARIABLES
  pc,             \* "idle", "loop" (in the two for loops), "finish" (line 241)
  args,           \* the arguments of the call in progress or last made
  rng,            \* the generator bound at line 116 (state -1: none yet)
  date_index,     \* line 120
  appezzamenti,   \* the list iterated, after the default of line 123
  giorni_totali,  \* line 127
  records,        \* line 125
  p,              \* position in appezzamenti of the outer loop (from 1)
  i,              \* day index of the inner loop (from 0)
  letti,          \* letti[n]: index in records that record n read, 0 if none
  outcome,        \* "none", "returned", or the exception raised
  df,             \* the dataset returned, when outcome = "returned"
  ncalls,         \* calls made so far
  history,        \* the calls completed so far: arguments and results
  output_dir,     \* OUTPUT_DIR: whether it exists, and the files in it
  traccia,        \* for each record: what its pass computed and decided
  filtri,         \* the values of filtro-appezzamento and filtro-date
  chiamata        \* the last dashboard function called, and what it returned

vars == <<pc, args, rng, date_index, appezzamenti, giorni_totali, records, p, i,
          letti, outcome, df, ncalls, history, output_dir, traccia, filtri,
          chiamata>>

Days == 1 .. MaxDay
\* plot lists a caller passes
PlotLists == {<<>>, <<A1>>, <<A3>>, <<A2, A1>>, <<A2, A10>>, <<A3, A3>>,
              <<A1, A2, A3>>}
AllArgs ==
  [data_inizio : Days, data_fine : Days,
   appezzamenti : {NoneList} \cup {Some(l) : l \in PlotLists},
   random_state : {NoneInt} \cup {Some(s) : s \in Seeds},
   salva_csv : {FALSE}, nome_file : {NoneStr}]
\* the streams an unseeded generator can get from the entropy source
FewSeeds == {5, 100}
\* the inputs of the runs that are compared with one another
FewArgs ==
  [data_inizio : {1}, data_fine : {2},
   appezzamenti : {Some(<<A1, A2>>), Some(<<A3, A2>>), Some(<<A1, A3>>)},
   random_state : {NoneInt} \cup {Some(s) : s \in FewSeeds},
   salva_csv : {FALSE}, nome_file : {NoneStr}]
\* the calls that may ask for the CSV export
ExportArgs ==
  [data_inizio : {1}, data_fine : {1, 2},
   appezzamenti : {NoneList, Some(<<A2, A10>>), Some(<<>>)},
   random_state : {Some(s) : s \in FewSeeds},
   salva_csv : BOOLEAN, nome_file : {NoneStr, Some("dati.csv")}]
\* the values datetime.now() can take at line 252
Timestamps == {1, 2}

\* the call of dashboard.py lines 21-27, its period cut to MaxDay days
DashArgs ==
  [data_inizio : {1}, data_fine : {MaxDay},
   appezzamenti : {Some(get_appezzamenti_default)},
   random_state : {Some(42)}, salva_csv : {FALSE}, nome_file : {NoneStr}]
\* the values the filters can be given
FilterPlots == {<<>>, ALL} \cup {a.id_appezzamento : a \in {A1, A2, A3, A10}}
FilterDates == {NoneInt} \cup {Some(d) : d \in 0 .. MaxDay + 1}
\* before the dashboard is laid out: no filter value, no call
NoFiltri == [appezzamento |-> <<>>, start_date |-> NoneInt, end_date |-> NoneInt]
NoChiamata == [nome |-> "", ritorno |-> <<>>, scritture |-> FALSE]

NoArgs == [data_inizio |-> 1, data_fine |-> 1, appezzamenti |-> NoneList,
           random_state |-> NoneInt, salva_csv |-> FALSE, nome_file |-> NoneStr]
Init ==
  /\ pc = "idle"
  /\ args = NoArgs
  /\ rng = [state |-> 0 - 1]
  /\ date_index = <<>>
  /\ appezzamenti = <<>>
  /\ giorni_totali = 0
  /\ records = <<>>
  /\ p = 1
  /\ i = 0
  /\ letti = <<>>
  /\ outcome = "none"
  /\ df = <<>>
  /\ ncalls = 0
  /\ history = <<>>
  /\ output_dir = [esiste |-> FALSE, files |-> {}]
  /\ traccia = <<>>
  /\ filtri = NoFiltri
  /\ chiamata = NoChiamata

\* The loop in the middle of a run: the plot's record of the day before is
\* there, with any moisture and nutrients the simulation can have brought
\* it to (moisture within 10..90, nutrients from 5 up), and the generator is
\* in any state.
StepUmidita ==
  {Dec(10000), Dec(10050), Dec(24900), Dec(50000), Dec(70300), Dec(89950),
   Dec(90000)}
StepNutrienti ==
  {<<x, x, x>> : x \in {Dec(5000), Dec(5020), Dec(19000), Dec(34000), Dec(60000)}}
    \cup {<<Dec(5000), Dec(60000), Dec(5020)>>}
RecordPrecedente(appez, u, nut) ==
  [data |-> 1,
   id_appezzamento |-> appez.id_appezzamento,
   coltura |-> appez.coltura,
   superficie_ha |-> appez.superficie_ha,
   temperatura_c |-> Dec(10000),
   umidita_suolo_pct |-> u,
   precipitazioni_mm |-> 0,
   nutrienti_n |-> nut[1],
   nutrienti_p |-> nut[2],
   nutrienti_k |-> nut[3],
   stadio_crescita |-> 0,
   resa_kg_ha |-> 0,
   resa_totale_kg |-> 0,
   costo_totale_eur |-> Dec(35000),
   ricavi_totali_eur |-> 0,
   margine_eur |-> Margine(0, Dec(35000))]
InitStep ==
  \E a \in {A1, A3}, u \in StepUmidita, nut \in StepNutrienti, s \in Seeds :
    LET prima == RecordPrecedente(a, u, nut)
    IN  /\ pc = "loop"
        /\ args = [data_inizio |-> 1, data_fine |-> MaxDay,
                   appezzamenti |-> Some(<<a>>), random_state |-> NoneInt,
                   salva_csv |-> FALSE, nome_file |-> NoneStr]
        /\ rng = [state |-> SeedState(s)]
        /\ date_index = DateRange(1, MaxDay)
        /\ appezzamenti = <<a>>
        /\ giorni_totali = MaxDay
        /\ records = <<prima>>
        /\ p = 1
        /\ i = 1
        /\ letti = <<0>>
        /\ traccia = <<[calcolato |-> prima, piove |-> FALSE, concima |-> FALSE,
                        fattore |-> FattorePenalizzante(u, (nut[1] + nut[2] + nut[3]) \div 3)]>>
        /\ outcome = "none"
        /\ df = <<>>
        /\ ncalls = 1
        /\ history = <<>>
        /\ output_dir = [esiste |-> FALSE, files |-> {}]
        /\ filtri = NoFiltri
        /\ chiamata = NoChiamata

Entry(a, o, recs, d) == [args |-> a, outcome |-> o, records |-> recs, df |-> d]

\* genera_dati, lines 116-127: the generator, the dates, the default plots;
\* date_index[-1] raises IndexError on an empty range
Call(Args, Entropy, cap) ==
  /\ pc = "idle"
  /\ ncalls < cap
  /\ \E a \in Args :
     \E e \in IF a.random_state.given THEN {a.random_state.v} ELSE Entropy :
       LET di == DateRange(a.data_inizio, a.data_fine)
           plots == IF IsNone(a.appezzamenti) THEN get_appezzamenti_default
                    ELSE a.appezzamenti.v
       IN  /\ args' = a
           /\ rng' = DefaultRng(a.random_state, e, rng)
           /\ date_index' = di
           /\ appezzamenti' = plots
           /\ records' = <<>>
           /\ letti' = <<>>
           /\ df' = <<>>
           /\ p' = 1
           /\ i' = 0
           /\ ncalls' = ncalls + 1
           /\ IF di = <<>>
              THEN /\ outcome' = "IndexError"
                   /\ pc' = "idle"
                   /\ giorni_totali' = 0
                   /\ history' = Append(history, Entry(a, "IndexError", <<>>, <<>>))
              ELSE /\ outcome' = "none"
                   /\ pc' = IF plots = <<>> THEN "finish" ELSE "loop"
                   /\ giorni_totali' = di[Len(di)] - di[1] + 1
                   /\ history' = history
  /\ traccia' = <<>>
  /\ UNCHANGED <<output_dir, filtri, chiamata>>

\* lines 129-239: one pass of the inner loop body
LoopBody ==
  /\ pc = "loop"
  /\ LET r == GeneraRecord(Appez(appezzamenti, p), i, DataDelGiorno(date_index, i), records,
                           giorni_totali, rng)
     IN  /\ records' = Append(records, r.record)
         /\ letti' = Append(letti, r.letto)
         /\ traccia' = Append(traccia, r.traccia)
         /\ rng' = r.rng
  /\ IF i + 1 < Len(date_index)
     THEN /\ i' = i + 1
          /\ p' = p
          /\ pc' = "loop"
     ELSE /\ i' = 0
          /\ p' = p + 1
          /\ pc' = IF p < Len(appezzamenti) THEN "loop" ELSE "finish"
  /\ UNCHANGED <<args, date_index, appezzamenti, giorni_totali, outcome, df,
                 ncalls, history, output_dir, filtri, chiamata>>

\* the name of the exported file: nome_file, or the pattern of line 253
\* filled with the time of the call
NomeFile(nome_file, adesso) ==
  IF nome_file.given THEN [nome |-> nome_file.v, timestamp |-> 0]
  ELSE [nome |-> "smartfarm_dati_.csv", timestamp |-> adesso]
\* df.to_csv(percorso): the file replaces one of the same name
Scrivi(dir, nome, righe) ==
  [esiste |-> TRUE,
   files |-> {f \in dir.files : f.nome # nome} \cup {[nome |-> nome, righe |-> righe]}]
\* lines 249-256, the export of table tab: the directory is made, the file
\* written.  Either step can fail with OSError, which nothing catches; a
\* failed write leaves no file or a truncated one.  The result is the
\* exception ("none" if there is none) and the directory afterwards.
SalvaCsv(dir, tab, nome) ==
  {[errore |-> "OSError", dir |-> dir],
   [errore |-> "OSError", dir |-> [dir EXCEPT !.esiste = TRUE]],
   [errore |-> "OSError",
    dir |-> Scrivi(dir, nome, SubSeq(tab, 1, Len(tab) - 1))],
   [errore |-> "none", dir |-> Scrivi(dir, nome, tab)]}

\* lines 241-258: the table is built, sorted, rounded, exported if asked and
\* returned; sort_values raises KeyError on the table of no records, which
\* has no columns; an exception of the export leaves the function before
\* "return df"
Finish ==
  /\ pc = "finish"
  /\ pc' = "idle"
  /\ IF records = <<>>
     THEN /\ outcome' = "KeyError"
          /\ df' = <<>>
          /\ UNCHANGED output_dir
     ELSE LET tab == RoundAll(SortValues(records))
          IN  IF ~args.salva_csv
              THEN /\ outcome' = "returned"
                   /\ df' = tab
                   /\ UNCHANGED output_dir
              ELSE \E adesso \in Timestamps :
                   \E r \in SalvaCsv(output_dir, tab, NomeFile(args.nome_file, adesso)) :
                     /\ output_dir' = r.dir
                     /\ IF r.errore = "none"
                        THEN outcome' = "returned" /\ df' = tab
                        ELSE outcome' = r.errore /\ df' = <<>>
  /\ history' = Append(history, Entry(args, outcome', records, df'))
  /\ UNCHANGED <<args, rng, date_index, appezzamenti, giorni_totali, records, p,
                 i, letti, ncalls, traccia, filtri, chiamata>>

\* ------------------------------------------------- the frames in memory
\* The DataFrame objects of the dashboard process are the elements of a
\* sequence mem: object 1 is the module-level df of line 21, the others are
\* made by the calls.  A frame is known by its position; mem[o] is its rows.
\* DataFrame.copy(): a new object with the same rows
Copy(mem, o) == [mem |-> Append(mem, mem[o]), obj |-> Len(mem) + 1]
\* frame[mask], frame[columns], frame.sort_values(...): a new object
NewFrame(mem, rows) == [mem |-> Append(mem, rows), obj |-> Len(mem) + 1]
\* variant: the column written into the module-level dataset
ScriviNelDataset(mem, o, rows) == [mem EXCEPT ![1] = rows]
\* frame[col] = values: object o itself is changed
ScriviColonna(mem, o, rows) == [mem EXCEPT ![o] = rows]
\* lines 214-225 on the objects: the copy of line 215, then a new frame for
\* each mask applied; the frame returned and the memory afterwards
filtra_dati_mem(mem, f) ==
  LET c == Copy(mem, 1)
      ma == IF f.appezzamento # <<>> /\ f.appezzamento # ALL
            THEN NewFrame(c.mem, filtra_dati(c.mem[c.obj], f.appezzamento,
                                             NoneInt, NoneInt))
            ELSE c
      ms == IF f.start_date.given
            THEN NewFrame(ma.mem, filtra_dati(ma.mem[ma.obj], <<>>,
                                              f.start_date, NoneInt))
            ELSE ma
  IN  IF f.end_date.given
      THEN NewFrame(ms.mem, filtra_dati(ms.mem[ms.obj], <<>>, NoneInt, f.end_date))
      ELSE ms
\* lines 546-600 on the objects: lines 581-584 sort the filtered frame into
\* a new one, copy it and write the running margin into the copy
aggiorna_grafici_economici_mem(mem, f) ==
  LET r == filtra_dati_mem(mem, f)
      ordinato == NewFrame(r.mem, r.mem[r.obj])
      df_acc == Copy(ordinato.mem, ordinato.obj)
  IN  IF Empty(r.mem[r.obj]) THEN r.mem
      ELSE ScriviColonna(df_acc.mem, df_acc.obj,
                         MargineAccumulato(df_acc.mem[df_acc.obj]))
\* lines 617-683 on the objects: lines 676-677 select the table's columns
\* into a new frame, copy it and rewrite the date column of the copy
aggiorna_grafici_ambientali_e_tabella_mem(mem, f) ==
  LET r == filtra_dati_mem(mem, f)
      colonne == NewFrame(r.mem, r.mem[r.obj])
      df_tab == Copy(colonne.mem, colonne.obj)
  IN  IF Empty(r.mem[r.obj]) THEN r.mem
      ELSE ScriviColonna(df_tab.mem, df_tab.obj,
                         TabellaDati(df_tab.mem[df_tab.obj]))

\* ----------------------------------------------------- dashboard actions
\* unchanged by every step of the dashboard after its dataset is loaded
VarsGenera == <<args, rng, date_index, appezzamenti, giorni_totali, records, p,
                i, letti, outcome, ncalls, history, output_dir, traccia>>
\* dashboard.py lines 21-38 after the call of genera_dati returned, and the
\* layout of lines 121-140: the filters start at "ALL" and the whole period
Layout ==
  /\ pc = "idle" /\ outcome = "returned"
  /\ pc' = "dash"
  /\ filtri' = [appezzamento |-> ALL, start_date |-> Some(data_min(df)),
                end_date |-> Some(data_max(df))]
  /\ chiamata' = NoChiamata
  /\ UNCHANGED <<df, VarsGenera>>
\* the user picks a plot and a period (or a test picks the arguments); the
\* callbacks that take the three values as Input are due again
Seleziona ==
  /\ pc = "dash"
  /\ \E a \in FilterPlots, s \in FilterDates, e \in FilterDates :
       filtri' = [appezzamento |-> a, start_date |-> s, end_date |-> e]
  /\ chiamata' = [NoChiamata EXCEPT !.scritture = chiamata.scritture]
  /\ UNCHANGED <<pc, df, VarsGenera>>
\* lines 232-240, the callback of btn-reset-filtri
ResetFiltri ==
  /\ pc = "dash"
  /\ filtri' = reset_filtri(df)
  /\ chiamata' = [NoChiamata EXCEPT !.scritture = chiamata.scritture]
  /\ UNCHANGED <<pc, df, VarsGenera>>
\* the call wrote a column into a frame: one of the two callbacks of lines
\* 581-584 and 676-677, on a filtered frame that has rows
HaScritto(nome, ritorno) ==
  /\ nome \in {"aggiorna_grafici_economici", "aggiorna_grafici_ambientali_e_tabella"}
  /\ ritorno[1].punti # <<>>
\* a call of a dashboard function: what it returns, and the memory it
\* leaves, of which object 1 is the module-level dataset
Chiama(nome, ritorno, mem) ==
  /\ pc = "dash"
  /\ chiamata' = [nome |-> nome, ritorno |-> ritorno,
                  scritture |-> (chiamata.scritture \/ HaScritto(nome, ritorno))]
  /\ df' = mem[1]
  /\ UNCHANGED <<pc, filtri, VarsGenera>>
\* lines 214-225, called with the values of the filters
FiltraDati ==
  LET r == filtra_dati_mem(<<df>>, filtri)
  IN  Chiama("filtra_dati", r.mem[r.obj], r.mem)
\* the six callbacks of the three filter values; four of them only read the
\* frame that filtra_dati returns
AggiornaKpiPanoramica ==
  Chiama("aggiorna_kpi_panoramica", aggiorna_kpi_panoramica(df, filtri),
         filtra_dati_mem(<<df>>, filtri).mem)
AggiornaKpiEconomici ==
  Chiama("aggiorna_kpi_economici", aggiorna_kpi_economici(df, filtri),
         filtra_dati_mem(<<df>>, filtri).mem)
AggiornaKpiAmbientali ==
  Chiama("aggiorna_kpi_ambientali", aggiorna_kpi_ambientali(df, filtri),
         filtra_dati_mem(<<df>>, filtri).mem)
AggiornaGraficiPanoramica ==
  Chiama("aggiorna_grafici_panoramica", aggiorna_grafici_panoramica(df, filtri),
         filtra_dati_mem(<<df>>, filtri).mem)
AggiornaGraficiEconomici ==
  Chiama("aggiorna_grafici_economici", aggiorna_grafici_economici(df, filtri),
         aggiorna_grafici_economici_mem(<<df>>, filtri))
AggiornaGraficiAmbientaliETabella ==
  Chiama("aggiorna_grafici_ambientali_e_tabella",
         aggiorna_grafici_ambientali_e_tabella(df, filtri),
         aggiorna_grafici_ambientali_e_tabella_mem(<<df>>, filtri))

\* one call, any arguments
Next == Call(AllArgs, FewSeeds, 1) \/ LoopBody \/ Finish
Spec == Init /\ [][Next]_vars
\* up to MaxCalls successive calls, arguments from FewArgs
NextCalls == Call(FewArgs, FewSeeds, MaxCalls) \/ LoopBody \/ Finish
SpecCalls == Init /\ [][NextCalls]_vars
\* one call that may ask for the export
NextExport == Call(ExportArgs, FewSeeds, 1) \/ LoopBody \/ Finish
SpecExport == Init /\ [][NextExport]_vars
\* the passes of the loop from a day in the middle of a run
NextStep == LoopBody \/ Finish
SpecStep == InitStep /\ [][NextStep]_vars
\* the dashboard: its dataset is generated, then the filters and callbacks run
NextDash ==
  \/ Call(DashArgs, FewSeeds, 1) \/ LoopBody \/ Finish \/ Layout
  \/ Seleziona \/ ResetFiltri \/ FiltraDati
  \/ AggiornaKpiPanoramica \/ AggiornaKpiEconomici \/ AggiornaKpiAmbientali
  \/ AggiornaGraficiPanoramica \/ AggiornaGraficiEconomici
  \/ AggiornaGraficiAmbientaliETabella
SpecDash == Init /\ [][NextDash]_vars

\* ----------------------------------------------------------------- claims
Seeded(a) == a.random_state.given
Returned == pc = "idle" /\ outcome = "returned"
Completed == pc = "idle" /\ ncalls > 0
NDays == Len(date_index)
\* the records of the plot at position j of a run over nd days
PlotRecords(recs, j, nd) == SubSeq(recs, (j - 1) * nd + 1, j * nd)
\* the rows of a table with plot id x
RowsOf(rows, x) ==
  LET Is(r) == r.id_appezzamento = x IN SelectSeq(rows, Is)
Idx(s) == 1 .. Len(s)

\* C1: two completed calls with the same arguments, a seed among them, have
\* the same outcome and return the same rounded table, whatever calls were
\* made before or between them.
C1_Determinism ==
  \A m, n \in Idx(history) :
    (history[m].args = history[n].args /\ Seeded(history[m].args))
      => /\ history[m].outcome = history[n].outcome
         /\ history[m].df = history[n].df
\* the same seeded call made first and third, another call between them
C1_Witness ==
  /\ Len(history) = 3
  /\ history[1].args = history[3].args
  /\ Seeded(history[1].args)
  /\ history[2].args # history[1].args
  /\ history[1].outcome = "returned"
  /\ history[1].df # history[2].df

\* the two argument records differ in the descriptor of exactly one plot
OnePlotChanged(a, b) ==
  /\ Seeded(a) /\ a.random_state = b.random_state
  /\ a.data_inizio = b.data_inizio /\ a.data_fine = b.data_fine
  /\ a.appezzamenti.given /\ b.appezzamenti.given
  /\ Len(a.appezzamenti.v) = Len(b.appezzamenti.v)
  /\ Cardinality({k \in Idx(a.appezzamenti.v) :
                    a.appezzamenti.v[k] # b.appezzamenti.v[k]}) = 1
\* C2: with the same seed, dates and positions, changing one plot's
\* descriptor changes no field of any other plot's records, before rounding
\* (records) and in the returned table (df).
C2_Isolation ==
  \A m, n \in Idx(history) :
    OnePlotChanged(history[m].args, history[n].args)
      => LET la == history[m].args.appezzamenti.v
             lb == history[n].args.appezzamenti.v
             nd == history[m].args.data_fine - history[m].args.data_inizio + 1
         IN  \A j \in Idx(la) :
               la[j] = lb[j]
                 => /\ PlotRecords(history[m].records, j, nd)
                         = PlotRecords(history[n].records, j, nd)
                    /\ RowsOf(history[m].df, la[j].id_appezzamento)
                         = RowsOf(history[n].df, lb[j].id_appezzamento)
\* two returned runs that differ in the first plot only, over two days
C2_Witness ==
  \E m, n \in Idx(history) :
    /\ OnePlotChanged(history[m].args, history[n].args)
    /\ history[m].args.appezzamenti.v[1] # history[n].args.appezzamenti.v[1]
    /\ history[m].outcome = "returned" /\ history[n].outcome = "returned"
    /\ Len(RowsOf(history[m].df, history[m].args.appezzamenti.v[2].id_appezzamento)) = 2
    /\ history[m].df # history[n].df

\* C3: the record of day index i > 0 of a plot reads records[-1], which is
\* the record of day i-1 of the same plot (same position in the list, same
\* plot id, the previous date); the record of day 0 reads no record.
C3_SamePlotRecurrence ==
  /\ Len(letti) = Len(records)
  /\ \A n \in Idx(records) :
       LET j == (n - 1) \div NDays + 1
           day == (n - 1) % NDays
       IN  /\ records[n].id_appezzamento = appezzamenti[j].id_appezzamento
           /\ records[n].data = date_index[day + 1]
           /\ IF day = 0 THEN letti[n] = 0
              ELSE /\ letti[n] = n - 1
                   /\ (letti[n] - 1) \div NDays + 1 = j
                   /\ records[letti[n]].id_appezzamento = records[n].id_appezzamento
                   /\ records[letti[n]].data = records[n].data - 1
\* the second plot of a list of plots with different ids, on its second day
C3_Witness ==
  /\ NDays >= 2
  /\ Len(records) = NDays + 2
  /\ records[1].id_appezzamento # records[NDays + 1].id_appezzamento
  /\ letti[NDays + 2] = NDays + 1

InBounds(r) ==
  /\ Dec(10000) <= r.umidita_suolo_pct /\ r.umidita_suolo_pct <= Dec(90000)
  /\ r.precipitazioni_mm >= 0
  /\ r.nutrienti_n >= Dec(5000)
  /\ r.nutrienti_p >= Dec(5000)
  /\ r.nutrienti_k >= Dec(5000)
  /\ 0 <= r.stadio_crescita /\ r.stadio_crescita <= One
  /\ r.resa_kg_ha >= 0
  /\ r.costo_totale_eur >= 0
  /\ r.ricavi_totali_eur >= 0
\* C4: every record built, and every row of the returned table, has moisture
\* in [10, 90], precipitation >= 0, each nutrient >= 5, growth stage in
\* [0, 1], yield per hectare, total cost and total revenue >= 0.
C4_Bounds ==
  /\ \A n \in Idx(records) : InBounds(records[n])
  /\ \A n \in Idx(df) : InBounds(df[n])
\* a returned table where the limits acted: a row at the moisture ceiling of
\* 90, and a row of a later day with yield and cost floored at 0
C4_Witness ==
  /\ Returned
  /\ \E n \in Idx(df) : df[n].umidita_suolo_pct = Dec(90000)
  /\ \E n \in Idx(df) :
       /\ df[n].data > args.data_inizio
       /\ df[n].resa_kg_ha = 0
       /\ df[n].costo_totale_eur = 0

\* the filters a consumer applies to the returned table
\* summed margin minus (summed revenue minus summed cost) over some rows
SumGap(rows) ==
  SumCol(rows, "margine_eur")
    - (SumCol(rows, "ricavi_totali_eur") - SumCol(rows, "costo_totale_eur"))
RowGap(r) == r.margine_eur - (r.ricavi_totali_eur - r.costo_totale_eur)
MarginPerRow ==
  /\ \A n \in Idx(records) : RowGap(records[n]) = 0
  /\ \A n \in Idx(df) : Abs(RowGap(df[n])) <= Dec(1)
\* C5 as stated: margin = revenue - cost exactly before rounding, within
\* 0.001 per row after rounding, and over ANY filtered set of n rows the
\* summed gap is less than 0.01 * n.
C5_Original ==
  /\ MarginPerRow
  /\ Returned =>
       \A a \in FilterPlots, s \in FilterDates, e \in FilterDates :
         LET f == filtra_dati(df, a, s, e)
         IN  Abs(SumGap(f)) < Dec(10) * Len(f)
\* C5 amended: the same per row; over a filtered set of n rows the summed gap
\* is at most 0.001 * n, which is less than 0.01 * n when the set is not
\* empty (n >= 1) and equal to it, both 0, when the set is empty.
C5_MarginIdentity ==
  /\ MarginPerRow
  /\ Returned =>
       \A a \in FilterPlots, s \in FilterDates, e \in FilterDates :
         LET f == filtra_dati(df, a, s, e)
         IN  /\ Abs(SumGap(f)) <= Dec(1) * Len(f)
             /\ Len(f) >= 1 => Abs(SumGap(f)) < Dec(10) * Len(f)
             /\ Len(f) = 0 => SumGap(f) = 0
\* a returned table with a row whose three rounded fields no longer add up
\* and a filter that keeps some rows, not all, that row among them
C5_Witness ==
  /\ Returned
  /\ LET f == filtra_dati(df, A1.id_appezzamento, Some(2), NoneInt)
     IN  /\ Len(f) >= 1 /\ Len(f) < Len(df)
         /\ \E n \in Idx(f) : Abs(RowGap(f[n])) = Dec(1)
         /\ SumGap(f) # 0

\* the number of plots the arguments designate
NPlotsOf(a) ==
  IF a.appezzamenti.given THEN Len(a.appezzamenti.v)
  ELSE Len(get_appezzamenti_default)
ValidArgs(a) == a.data_inizio <= a.data_fine /\ NPlotsOf(a) >= 1
\* C6: a completed call with start <= end and a non-empty list of plots has
\* returned a table of |plots| * (days from start to end inclusive) rows.
C6_RowCount ==
  (Completed /\ ValidArgs(args))
     => /\ outcome = "returned"
        /\ Len(df) = NPlotsOf(args) * (args.data_fine - args.data_inizio + 1)
\* the three default plots over three days, and a one-day call
C6_Witness ==
  /\ Returned
  /\ ~args.appezzamenti.given
  /\ args.data_fine = args.data_inizio + 2
  /\ Len(df) = 9

UniqueKeys(rows) ==
  \A m, n \in Idx(rows) :
    (rows[m].data = rows[n].data /\ rows[m].id_appezzamento = rows[n].id_appezzamento)
      => m = n
DistinctIds(l) ==
  \A m, n \in Idx(l) : l[m].id_appezzamento = l[n].id_appezzamento => m = n
\* C7 as stated: for ANY list of plots no two rows of the returned table have
\* the same date and plot id.
C7_Original == Returned => UniqueKeys(df)
\* C7 amended: the same, for every list of plots whose ids are pairwise
\* distinct.
C7_KeyUniqueness == (Returned /\ DistinctIds(appezzamenti)) => UniqueKeys(df)
\* two plots with different ids over at least two days
C7_Witness ==
  /\ Returned
  /\ Len(appezzamenti) = 2 /\ DistinctIds(appezzamenti)
  /\ NDays >= 2
  /\ Len(df) = 2 * NDays

\* C8: the rows returned are in ascending order of date and, within a date,
\* in ascending lexical order of plot id, whatever the order of the plots.
C8_OutputOrder ==
  Returned =>
    \A n \in 1 .. Len(df) - 1 :
      \/ df[n].data < df[n + 1].data
      \/ /\ df[n].data = df[n + 1].data
         /\ \/ df[n].id_appezzamento = df[n + 1].id_appezzamento
            \/ StrLess(df[n].id_appezzamento, df[n + 1].id_appezzamento)
\* plots given as "A2", "A10": "A10" comes first in every date of the table
C8_Witness ==
  /\ Returned
  /\ args.appezzamenti = Some(<<A2, A10>>)
  /\ NDays >= 2
  /\ df[1].id_appezzamento = A10.id_appezzamento
  /\ df[2].id_appezzamento = A2.id_appezzamento
  /\ df[2].data = df[1].data /\ df[3].data > df[2].data

\* C9: a call with end_date < start_date raises (IndexError, at line 127, on
\* the empty range) before any record is built and returns no table.
C9_InvalidRange ==
  (ncalls > 0 /\ args.data_fine < args.data_inizio)
    => /\ pc = "idle"
       /\ outcome = "IndexError"
       /\ records = <<>>
       /\ df = <<>>
       /\ history[Len(history)] = Entry(args, "IndexError", <<>>, <<>>)
\* an invalid range with a non-empty list of plots
C9_Witness ==
  /\ Completed
  /\ args.data_fine < args.data_inizio
  /\ args.appezzamenti = Some(<<A1>>)
  /\ outcome = "IndexError"

\* C10: an empty list passed explicitly is iterated as it is, never replaced
\* by the default plots, and the call raises (KeyError at line 242 when the
\* range is valid) instead of returning a table; the default plots are
\* iterated exactly when the argument is omitted.
C10_EmptyConfiguration ==
  ncalls > 0 =>
    /\ appezzamenti = (IF args.appezzamenti.given THEN args.appezzamenti.v
                       ELSE get_appezzamenti_default)
    /\ (args.appezzamenti.given /\ args.appezzamenti.v = <<>>) =>
         /\ outcome # "returned"
         /\ records = <<>> /\ df = <<>>
         /\ pc = "idle" => outcome \in {"KeyError", "IndexError"}
         /\ (pc = "idle" /\ args.data_inizio <= args.data_fine) => outcome = "KeyError"
\* an explicit empty list over a valid range
C10_Witness ==
  /\ Completed
  /\ args.appezzamenti = Some(<<>>)
  /\ args.data_inizio < args.data_fine
  /\ outcome = "KeyError"

\* C11: when the export is requested and making the directory or writing
\* the file fails, the failure reaches the caller and the table already
\* computed is still delivered, unchanged.
C11_ExportFailure ==
  (Completed /\ args.salva_csv /\ outcome = "OSError")
    => /\ records # <<>>
       /\ df = RoundAll(SortValues(records))

\* ---------------------------------------------------------- dashboard claims
\* the name of the dashboard function that made the last call
Chiamata(nome) == pc = "dash" /\ chiamata.nome = nome
\* the filter values name one plot
PlotGiven(f) == f.appezzamento # <<>> /\ f.appezzamento # ALL
\* row r meets every criterion that filter values f give
Matches(r, f) ==
  /\ PlotGiven(f) => r.id_appezzamento = f.appezzamento
  /\ f.start_date.given => r.data >= f.start_date.v
  /\ f.end_date.given => r.data <= f.end_date.v
\* the positions of the dataset's rows that match the filter values
Matching == {n \in Idx(df) : Matches(df[n], filtri)}

\* C12: every row filtra_dati returns has the plot id asked for when one is
\* asked for, a date not before start when start is given and not after end
\* when end is given; a matching row dated exactly start or end is returned.
C12_FilterSoundness ==
  Chiamata("filtra_dati") =>
    /\ \A k \in Idx(chiamata.ritorno) :
         LET r == chiamata.ritorno[k]
         IN  /\ PlotGiven(filtri) => r.id_appezzamento = filtri.appezzamento
             /\ filtri.start_date.given => r.data >= filtri.start_date.v
             /\ filtri.end_date.given => r.data <= filtri.end_date.v
    /\ \A n \in Matching :
         (\/ filtri.start_date.given /\ df[n].data = filtri.start_date.v
          \/ filtri.end_date.given /\ df[n].data = filtri.end_date.v)
           => \E k \in Idx(chiamata.ritorno) : chiamata.ritorno[k] = df[n]
\* one plot and one day picked out of a dataset of several plots and days
C12_Witness ==
  /\ Chiamata("filtra_dati")
  /\ filtri = [appezzamento |-> A2.id_appezzamento, start_date |-> Some(2),
               end_date |-> Some(2)]
  /\ Len(chiamata.ritorno) = 1
  /\ \E n \in Idx(df) : df[n].id_appezzamento # A2.id_appezzamento
  /\ \E n \in Idx(df) : df[n].data > 2
  /\ \E n \in Idx(df) : df[n].data < 2

KpiCallbacks ==
  {"aggiorna_kpi_panoramica", "aggiorna_kpi_economici", "aggiorna_kpi_ambientali"}
FigCallbacks == {"aggiorna_grafici_panoramica", "aggiorna_grafici_economici"}
\* a figure that shows no data
IsPlaceholderFig(fig) ==
  fig.punti = <<>> /\ ~fig.assi
    /\ fig.title \in {"Nessun dato disponibile per i filtri selezionati",
                      "Nessun dato da mostrare"}
\* C13: when no row matches the filter values, filtra_dati returns the empty
\* table and every KPI and chart callback returns its placeholder: cards of
\* value "-", figures of no data, an empty table; none shows a mean or a sum.
C13_EmptyResult ==
  (pc = "dash" /\ Matching = {}) =>
    /\ chiamata.nome = "filtra_dati" => chiamata.ritorno = <<>>
    /\ chiamata.nome \in KpiCallbacks =>
         /\ Len(chiamata.ritorno) = 3
         /\ \A j \in 1 .. 3 : chiamata.ritorno[j].value = Testo("-")
    /\ chiamata.nome \in FigCallbacks =>
         \A j \in Idx(chiamata.ritorno) : IsPlaceholderFig(chiamata.ritorno[j])
    /\ chiamata.nome = "aggiorna_grafici_ambientali_e_tabella" =>
         /\ \A j \in 1 .. 3 : IsPlaceholderFig(chiamata.ritorno[j])
         /\ chiamata.ritorno[4] = <<>>
         /\ chiamata.ritorno[5] = <<>>
\* the table callback called with a period that ends before it starts, on a
\* dataset that has rows
C13_Witness ==
  /\ Chiamata("aggiorna_grafici_ambientali_e_tabella")
  /\ df # <<>>
  /\ filtri.appezzamento = A1.id_appezzamento
  /\ filtri.start_date = Some(2) /\ filtri.end_date = Some(1)
  /\ Matching = {}

\* the k-th matching position, counted in the order of the dataset
KthMatch(k) ==
  CHOOSE n \in Matching : Cardinality({m \in Matching : m <= n}) = k
\* C20: filtra_dati returns exactly the rows of the dataset that meet every
\* given criterion, in the dataset's order; "ALL" or an empty plot, and a
\* bound of None, restrict nothing; with the values reset_filtri produces it
\* returns the whole dataset.
C20_FilterCompleteness ==
  Chiamata("filtra_dati") =>
    /\ Len(chiamata.ritorno) = Cardinality(Matching)
    /\ \A k \in Idx(chiamata.ritorno) : chiamata.ritorno[k] = df[KthMatch(k)]
    /\ (filtri.appezzamento \in {<<>>, ALL} /\ ~filtri.start_date.given
          /\ ~filtri.end_date.given) => chiamata.ritorno = df
    /\ filtri = [appezzamento |-> ALL, start_date |-> Some(df[1].data),
                 end_date |-> Some(df[Len(df)].data)] => chiamata.ritorno = df
\* filtra_dati called right after reset_filtri, on several plots and days
C20_Witness ==
  /\ Chiamata("filtra_dati")
  /\ filtri = reset_filtri(df)
  /\ chiamata.ritorno = df
  /\ Len(df) = 3 * MaxDay

\* ------------------------------------------------------- simulation steps
\* record n is the first of its plot: day index 0
IsDayZero(n) == (n - 1) % NDays = 0
\* C14: for every plot of the list the record of day index 0 is drawn afresh:
\* moisture within 30..60, nitrogen 40..80, phosphorus 20..50, potassium
\* 30..70, whatever the day's precipitation and whatever the last record of
\* the plot processed before, which is not read.
C14_DayZero ==
  \A n \in Idx(records) :
    IsDayZero(n) =>
      /\ letti[n] = 0
      /\ records[n].umidita_suolo_pct \in Dec(30000) .. Dec(60000)
      /\ records[n].nutrienti_n \in Dec(40000) .. Dec(80000)
      /\ records[n].nutrienti_p \in Dec(20000) .. Dec(50000)
      /\ records[n].nutrienti_k \in Dec(30000) .. Dec(70000)
\* the day 0 of a later plot, a day of rain, after a plot that ended with
\* its moisture above 60
C14_Witness ==
  \E n \in Idx(records) :
    /\ n > 1 /\ IsDayZero(n)
    /\ records[n].precipitazioni_mm > 0
    /\ records[n - 1].umidita_suolo_pct > Dec(60000)

\* the product of two stored values, compared as the numbers they stand for
Prodotto(r) == MulFix(r.resa_kg_ha, r.superficie_ha)
\* the original statement of C15: in every record of the returned dataset
\* the total yield is the yield per hectare times the area
C15_Original ==
  Returned => \A k \in Idx(df) : Abs(df[k].resa_totale_kg - Prodotto(df[k])) <= 1
\* C15: as computed, before the rounding, the total yield is the yield per
\* hectare times the area; in the returned dataset, whose three fields are
\* rounded each on its own, the stored total is within
\* 0.0005 * (1 + area + yield per hectare) of the product of the stored factors.
C15_TotalYield ==
  /\ \A n \in Idx(records) : records[n].resa_totale_kg = Prodotto(records[n])
  /\ Returned =>
       \A k \in Idx(df) :
         2 * One * Abs(df[k].resa_totale_kg - Prodotto(df[k]))
           <= Res * (One + df[k].superficie_ha + df[k].resa_kg_ha) + 4 * One
\* a returned row whose stored total is not the product of its stored
\* factors, the yield being positive and the area not 1
C15_Witness ==
  /\ Returned
  /\ \E k \in Idx(df) :
       /\ df[k].resa_kg_ha > 0
       /\ Abs(df[k].resa_totale_kg - Prodotto(df[k])) >= Res

NumericFields ==
  {"superficie_ha", "temperatura_c", "umidita_suolo_pct", "precipitazioni_mm",
   "nutrienti_n", "nutrienti_p", "nutrienti_k", "stadio_crescita", "resa_kg_ha",
   "resa_totale_kg", "costo_totale_eur", "ricavi_totali_eur", "margine_eur"}
\* row r of the returned table is record c, each number rounded
IsRounded(r, c) ==
  /\ r.data = c.data /\ r.id_appezzamento = c.id_appezzamento
  /\ r.coltura = c.coltura
  /\ \A f \in NumericFields : r[f] = Round3(c[f])
\* C16: the records kept while the loop runs, which the next day's pass
\* reads, hold the values as computed, unrounded; the returned table has one
\* row per record and every number in it is the rounding to 3 decimals of
\* the value computed.
C16_RoundingOnce ==
  /\ Len(traccia) = Len(records)
  /\ \A n \in Idx(records) : records[n] = traccia[n].calcolato
  /\ Returned =>
       /\ Len(df) = Len(records)
       /\ \A k \in Idx(df) : \E n \in Idx(records) : IsRounded(df[k], traccia[n].calcolato)
       /\ \A n \in Idx(records) : \E k \in Idx(df) : IsRounded(df[k], traccia[n].calcolato)
\* a returned table with a day whose pass read a moisture and a nitrogen
\* that rounding would have changed
C16_Witness ==
  /\ Returned
  /\ \E n \in Idx(records) :
       /\ letti[n] > 0
       /\ Round3(records[letti[n]].umidita_suolo_pct) # records[letti[n]].umidita_suolo_pct
       /\ Round3(records[letti[n]].nutrienti_n) # records[letti[n]].nutrienti_n

\* the positions of the records computed from the record before them
Steps == {n \in Idx(records) : n > 1 /\ letti[n] = n - 1}
\* C17: on a day after the first, moisture is the previous day's minus a
\* decay within 0.1..0.8 plus a recharge, clamped to 10..90; the recharge is
\* min(20, precipitation * u) with u within 0.3..0.6 if the precipitation is
\* positive and 0 otherwise.  So without precipitation (a rain day floored
\* to 0 included) moisture does not exceed the previous day's, and it never
\* rises by more than 20.
C17_MoistureStep ==
  \A n \in Steps :
    LET prima == records[n - 1].umidita_suolo_pct
        ora == records[n].umidita_suolo_pct
        mm == records[n].precipitazioni_mm
        rmin == IF mm > 0 THEN Min2(Dec(20000), MulFix(mm, Dec(300))) ELSE 0
        rmax == IF mm > 0 THEN Min2(Dec(20000), MulFix(mm, Dec(600))) ELSE 0
    IN  /\ ora >= Clip(prima - Dec(800) + rmin, Dec(10000), Dec(90000))
        /\ ora <= Clip(prima - Dec(100) + rmax, Dec(10000), Dec(90000))
        /\ mm = 0 => ora <= prima
        /\ ora - prima <= Dec(20000)
\* a rain day whose amount was floored to 0, moisture not above the day
\* before, and a day of heavy rain whose recharge met the cap of 20
C17_Witness ==
  /\ \E n \in Steps :
       /\ traccia[n].piove /\ records[n].precipitazioni_mm = 0
       /\ records[n].umidita_suolo_pct < records[n - 1].umidita_suolo_pct
  /\ \E n \in Steps :
       /\ MulFix(records[n].precipitazioni_mm, Dec(300)) > Dec(20000)
       /\ records[n].umidita_suolo_pct - records[n - 1].umidita_suolo_pct
            >= Dec(20000) - Dec(800)

\* the draws of a nutrient's step: depletion and bonus ranges
NutrientSteps ==
  {[f |-> "nutrienti_n", dmin |-> Dec(50), dmax |-> Dec(300),
    bmin |-> Dec(10000), bmax |-> Dec(25000)],
   [f |-> "nutrienti_p", dmin |-> Dec(20), dmax |-> Dec(150),
    bmin |-> Dec(5000), bmax |-> Dec(15000)],
   [f |-> "nutrienti_k", dmin |-> Dec(50), dmax |-> Dec(250),
    bmin |-> Dec(8000), bmax |-> Dec(20000)]}
\* C18: on a day after the first each nutrient is max(5, previous - draw),
\* and then, if the day's one replenishment event fired, raised by its
\* bonus: without the event no nutrient is above the day before, with it all
\* three are raised, each to at least 5 plus its smallest bonus (the floor
\* comes before the bonus).
C18_NutrientStep ==
  \A n \in Steps :
    /\ \A x \in NutrientSteps :
         LET prima == records[n - 1][x.f]
             ora == records[n][x.f]
             lo == Max2(Dec(5000), prima - x.dmax)
             hi == Max2(Dec(5000), prima - x.dmin)
         IN  IF traccia[n].concima
             THEN /\ ora >= lo + x.bmin /\ ora <= hi + x.bmax
                  /\ ora >= Dec(5000) + x.bmin
                  /\ ora > prima
             ELSE /\ ora >= lo /\ ora <= hi
                  /\ ora <= prima
    /\ \/ \A x \in NutrientSteps : records[n][x.f] <= records[n - 1][x.f]
       \/ \A x \in NutrientSteps : records[n][x.f] > records[n - 1][x.f]
\* the event on a day whose nitrogen, depleted, was held at the floor of 5:
\* the bonus is added to 5; and a day without the event
C18_Witness ==
  /\ \E n \in Steps :
       /\ traccia[n].concima
       /\ records[n - 1].nutrienti_n - Dec(50) < Dec(5000)
       /\ records[n].nutrienti_n >= Dec(15000)
  /\ \E n \in Steps : ~traccia[n].concima

\* the penalties as the claim states them
MoisturePenalty(u) ==
  IF u < Dec(25000) \/ u > Dec(80000) THEN Dec(300)
  ELSE IF (u >= Dec(25000) /\ u < Dec(35000)) \/ (u > Dec(70000) /\ u <= Dec(80000))
       THEN Dec(150)
  ELSE 0
NutrientPenalty(m) ==
  IF m < Dec(20000) THEN Dec(400)
  ELSE IF m >= Dec(20000) /\ m < Dec(35000) THEN Dec(200)
  ELSE 0
\* C19: the factor applied to the potential yield of every record is
\* 1 - moisture penalty - nutrient penalty with the penalties of the claim's
\* intervals; it is never below 0.3 and never the floor 0.1.
C19_PenaltyFactor ==
  \A n \in Idx(records) :
    LET r == records[n]
        m == (r.nutrienti_n + r.nutrienti_p + r.nutrienti_k) \div 3
    IN  /\ traccia[n].fattore
             = One - MoisturePenalty(r.umidita_suolo_pct) - NutrientPenalty(m)
        /\ traccia[n].fattore >= Dec(300)
        /\ traccia[n].fattore # Dec(100)
\* a computed record with both penalties at their largest: the factor is 0.3
C19_Witness ==
  \E n \in Steps :
    /\ records[n].umidita_suolo_pct > Dec(80000)
    /\ records[n].nutrienti_n + records[n].nutrienti_p + records[n].nutrienti_k
         < 3 * Dec(20000)
    /\ traccia[n].fattore = Dec(300)

\* the dataset as genera_dati returned it to the dashboard
Caricato == RoundAll(SortValues(records))
\* C21: whatever calls of filtra_dati, reset_filtri and the KPI and chart
\* callbacks were made, in whatever order, the module-level dataset is the
\* one that was loaded, and filtra_dati returns the rows of that dataset that
\* its arguments select: the same rows for the same arguments.
C21_DatasetReadOnly ==
  pc = "dash" =>
    /\ df = Caricato
    /\ chiamata.nome = "filtra_dati" =>
         LET Sel(r) == Matches(r, filtri)
         IN  chiamata.ritorno = SelectSeq(Caricato, Sel)
\* filtra_dati returning rows after a callback has written the cumulative
\* margin or the formatted dates into its copy
C21_Witness ==
  /\ Chiamata("filtra_dati")
  /\ chiamata.scritture
  /\ chiamata.ritorno # <<>>
  /\ df = Caricato

====
